---- MODULE Spec2Model ----
(***************************************************************************)
(* Model of the TickSignals python service:                                *)
(*   python-service/tick_signals_core.py  (signal and forecast engine)     *)
(*   python-service/app.py                (batch scans, event stream)      *)
(*                                                                         *)
(* Numbers.  Prices, moving averages, gaps and the MACD histogram are      *)
(* integers in hundredths (cents); RSI is in whole points; volumes are     *)
(* integers.  A comparison against a decimal constant of the source is     *)
(* written cross-multiplied (x < p * 0.01 is 100 * x < p).  Quotients that *)
(* the code keeps as floats are exact fractions <<num, den>>.              *)
(* The floating not-a-number is the value NaN; every comparison with it    *)
(* is false, as in Python.                                                 *)
(***************************************************************************)
EXTENDS Integers, Sequences, FiniteSets, Bags, TLC

VARIABLES
    call,              \* the last invocation of an engine function: name, arguments, return value
    all_signals,       \* table all_signals: bag of rows, unique key (Date, Ticker)
    forecast_signals,  \* table forecast_signals: bag of rows, unique key (Ticker, Date)
    tickers,           \* batch scan: the ticker list of the running scan
    i,                 \* batch scan: number of tickers taken from the list so far
    events,            \* batch scan: the event stream yielded so far
    generated,         \* batch scan: signals_generated / forecasts_generated
    pc,                \* batch scan: position of the generator
    invoked            \* batch scan: the engine calls made so far, with what happened in each

batch == <<tickers, i, events, generated, pc, invoked>>

vars == <<call, all_signals, forecast_signals, tickers, i, events, generated, pc, invoked>>

-----------------------------------------------------------------------------
(* Floating point values *)

\* numpy NaN: the result of a rolling mean over an unfilled or NaN-holed window
NaN == 0 - 999999

IsNaN(x) == x = NaN

Abs(x) == IF x < 0 THEN 0 - x ELSE x

\* Python comparisons: false as soon as one side is NaN
Lt(a, b) == ~IsNaN(a) /\ ~IsNaN(b) /\ a < b
Le(a, b) == ~IsNaN(a) /\ ~IsNaN(b) /\ a <= b
Gt(a, b) == Lt(b, a)
Ge(a, b) == Le(b, a)

\* a - b on floats
Sub(a, b) == IF IsNaN(a) \/ IsNaN(b) THEN NaN ELSE a - b

\* abs(a) on floats
FAbs(a) == IF IsNaN(a) THEN NaN ELSE Abs(a)

\* k * a for a float a and a constant k
Mul(k, a) == IF IsNaN(a) THEN NaN ELSE k * a

RECURSIVE GCD(_, _)
GCD(a, b) == IF b = 0 THEN a ELSE GCD(b, a % b)

\* the float n / d (d > 0) as an exact fraction in lowest terms
Frac(n, d) == LET g == GCD(Abs(n), d) IN
              IF n < 0 THEN <<0 - (Abs(n) \div g), d \div g>> ELSE <<n \div g, d \div g>>

\* Python None where a float is expected
None == <<>>

-----------------------------------------------------------------------------
(* Alternation pass of process_ticker_signals *)

Buy == 2
Sell == 0 - 2
NoSignal == 0

\* the loop over data.iterrows(): rows k..Len(signal) with the flag is_invested
RECURSIVE AlternateFrom(_, _, _)
AlternateFrom(signal, k, is_invested) ==
    IF k > Len(signal) THEN <<>>
    ELSE IF ~is_invested /\ signal[k] = Buy
         THEN <<signal[k]>> \o AlternateFrom(signal, k + 1, TRUE)
    ELSE IF is_invested /\ signal[k] = Sell
         THEN <<signal[k]>> \o AlternateFrom(signal, k + 1, FALSE)
    ELSE <<NoSignal>> \o AlternateFrom(signal, k + 1, is_invested)

\* a pass that also keeps a Buy raised while invested
AlternateKeepBuy(signal) ==
    [k \in 1..Len(signal) |->
        IF signal[k] = Buy THEN Buy
        ELSE IF signal[k] = Sell /\ (\E j \in 1..(k-1) : signal[j] = Buy) THEN Sell
        ELSE NoSignal]

\* cleaned_signals for a raw Signal column
cleaned_signals(signal) == AlternateFrom(signal, 1, FALSE)

-----------------------------------------------------------------------------
(* calculate_confidence *)

\* row.get(field, default)
Get(row, field, default) == IF field \in DOMAIN row THEN row[field] ELSE default

Min(a, b) == IF a < b THEN a ELSE b
Max(a, b) == IF a > b THEN a ELSE b

\* the default returned by the except branch
DefaultConfidence == 65

\* the try body with the volume test written volume >= volume_ma * 0.7
ConfidenceVolumeInclusive(row) ==
    LET rsi == Get(row, "RSI", 50)
        macd_hist == Get(row, "MACD_Hist", 0)
        volume == Get(row, "Volume", 0)
        volume_ma == Get(row, "Volume_MA", volume)
        sma50 == Get(row, "SMA50", Get(row, "Close", 0))
        sma200 == Get(row, "SMA200", Get(row, "Close", 0))
        c1 == 50 + (IF Le(40, rsi) /\ Le(rsi, 60) THEN 15
                    ELSE IF Le(30, rsi) /\ Le(rsi, 70) THEN 10
                    ELSE IF Le(20, rsi) /\ Le(rsi, 80) THEN 5
                    ELSE 0)
        c2 == c1 + (IF Gt(macd_hist, 0) THEN 10
                    ELSE IF Lt(macd_hist, 0 - 50) THEN 0 - 5
                    ELSE 0)
        c3 == c2 + (IF ~IsNaN(volume) /\ ~IsNaN(volume_ma) /\ 10 * volume >= 7 * volume_ma
                    THEN 5 ELSE 0)
        gapped == ~IsNaN(sma50) /\ Gt(sma200, 0)
        c4 == c3 + (IF gapped /\ 100 * Abs(sma50 - sma200) > 5 * sma200 THEN 5
                    ELSE IF gapped /\ 100 * Abs(sma50 - sma200) < sma200 THEN 0 - 5
                    ELSE 0)
    IN Min(Max(c4, 40), 95)

\* the try body, for a row found at a unique index position
ConfidenceOfRow(row) ==
    LET rsi == Get(row, "RSI", 50)
        macd_hist == Get(row, "MACD_Hist", 0)
        volume == Get(row, "Volume", 0)
        volume_ma == Get(row, "Volume_MA", volume)
        sma50 == Get(row, "SMA50", Get(row, "Close", 0))
        sma200 == Get(row, "SMA200", Get(row, "Close", 0))
        c1 == 50 + (IF Le(40, rsi) /\ Le(rsi, 60) THEN 15
                    ELSE IF Le(30, rsi) /\ Le(rsi, 70) THEN 10
                    ELSE IF Le(20, rsi) /\ Le(rsi, 80) THEN 5
                    ELSE 0)
        c2 == c1 + (IF Gt(macd_hist, 0) THEN 10
                    ELSE IF Lt(macd_hist, 0 - 50) THEN 0 - 5
                    ELSE 0)
        \* volume > volume_ma * 0.7
        c3 == c2 + (IF ~IsNaN(volume) /\ ~IsNaN(volume_ma) /\ 10 * volume > 7 * volume_ma
                    THEN 5 ELSE 0)
        gapped == ~IsNaN(sma50) /\ Gt(sma200, 0)
        c4 == c3 + (IF gapped /\ 100 * Abs(sma50 - sma200) > 5 * sma200 THEN 5
                    ELSE IF gapped /\ 100 * Abs(sma50 - sma200) < sma200 THEN 0 - 5
                    ELSE 0)
    IN Min(Max(c4, 40), 95)

\* a scorer whose except branch gives up with 0
ConfidenceDefaultZero(row, loc) ==
    IF loc = "unique" THEN ConfidenceOfRow(row) ELSE 0

\* loc: what data.index.get_loc(signal_date) finds: "unique" (one position),
\* "absent" (KeyError), "duplicate" (a slice; the comparisons on it raise)
calculate_confidence(row, loc) ==
    IF loc = "unique" THEN ConfidenceOfRow(row) ELSE DefaultConfidence

-----------------------------------------------------------------------------
(* calculate_days_to_crossover *)

\* the float 0.0 and the cap 365.0
ZeroDays == <<0, 1>>
CapDays == <<365, 1>>

\* the series as the estimator reads it: its length, the last SMA50, SMA200
\* and Close, and SMA50 and SMA200 at the oldest sampled bar,
\* index len - min(30, len)
Gap(d) == Sub(d.SMA50, d.SMA200)
OldGap(d) == Sub(d.SMA50_old, d.SMA200_old)

\* lookback = min(30, len(data)); recent_gaps holds that many gaps
Lookback(d) == Min(30, d.len)

\* recent_gaps[0] - recent_gaps[-1], the numerator of convergence_rate
GapChange(d) == Sub(Gap(d), OldGap(d))

\* abs(current_gap) < current_price * 0.01
AlreadyClose(d) == Lt(Mul(100, FAbs(Gap(d))), d.Close)

\* abs(convergence_rate) < 0.001, the rate being (change / 100) / lookback dollars a day
FlatRate(d) == ~IsNaN(GapChange(d)) /\ 10 * Abs(GapChange(d)) < Lookback(d)

\* (current_gap > 0 and convergence_rate > 0) or (current_gap < 0 and convergence_rate < 0)
Diverging(d) ==
    \/ Gt(Gap(d), 0) /\ Gt(GapChange(d), 0)
    \/ Lt(Gap(d), 0) /\ Lt(GapChange(d), 0)

\* max(0.0, min(abs(current_gap / convergence_rate), 365.0)); a NaN quotient
\* passes min() unchanged and max(0.0, NaN) is 0.0
ClampedDays(d) ==
    IF IsNaN(Gap(d)) \/ IsNaN(GapChange(d)) THEN ZeroDays
    ELSE LET num == Abs(Gap(d)) * Lookback(d)
             den == Abs(GapChange(d))
         IN IF num >= 365 * den THEN CapDays ELSE Frac(num, den)

\* an estimator without the divergence test
DaysIgnoringDirection(d) ==
    IF d.len < 20 THEN None
    ELSE IF AlreadyClose(d) THEN ZeroDays
    ELSE IF Lookback(d) < 5 THEN None
    ELSE IF FlatRate(d) THEN None
    ELSE ClampedDays(d)

calculate_days_to_crossover(d) ==
    IF d.len < 20 THEN None
    ELSE IF AlreadyClose(d) THEN ZeroDays
    ELSE IF Lookback(d) < 5 THEN None
    ELSE IF FlatRate(d) THEN None
    ELSE IF Diverging(d) THEN None
    ELSE ClampedDays(d)

\* days < k for a defined estimate
DaysLt(days, k) == days[1] < k * days[2]

-----------------------------------------------------------------------------
(* generate_enhanced_signals: the raw Signal column *)

\* a bar with no indicator defined: what shift(1) yields before the first bar
UndefinedBar == [Close |-> NaN, Volume |-> NaN, SMA50 |-> NaN, SMA200 |-> NaN,
                 RSI |-> NaN, MACD_Hist |-> NaN, Volume_MA |-> NaN]

buy_crossover(prev, cur) == Gt(cur.SMA50, cur.SMA200) /\ Le(prev.SMA50, prev.SMA200)
sell_crossover(prev, cur) == Lt(cur.SMA50, cur.SMA200) /\ Ge(prev.SMA50, prev.SMA200)

\* RSI < 75 and RSI > 25 and MACD_Hist > -0.5
buy_confirmation(cur) == Lt(cur.RSI, 75) /\ Gt(cur.RSI, 25) /\ Gt(cur.MACD_Hist, 0 - 50)

\* RSI > 65 or MACD_Hist < 0
sell_confirmation(cur) == Gt(cur.RSI, 65) \/ Lt(cur.MACD_Hist, 0)

\* the raw signal over averages whose undefined values were filled with zero
RawSignalFillZero(prev, cur) ==
    LET Fill(b) == [b EXCEPT !.SMA50 = IF IsNaN(@) THEN 0 ELSE @,
                             !.SMA200 = IF IsNaN(@) THEN 0 ELSE @]
    IN IF sell_crossover(Fill(prev), Fill(cur)) /\ sell_confirmation(cur) THEN Sell
       ELSE IF buy_crossover(Fill(prev), Fill(cur)) /\ buy_confirmation(cur) THEN Buy
       ELSE NoSignal

\* Signal starts at 0, buy_conditions sets 2, then sell_conditions sets -2
RawSignal(prev, cur) ==
    IF sell_crossover(prev, cur) /\ sell_confirmation(cur) THEN Sell
    ELSE IF buy_crossover(prev, cur) /\ buy_confirmation(cur) THEN Buy
    ELSE NoSignal

\* a fetched series that passed the length guard: data.before is the bar
\* before the dated bars data.rows (UndefinedBar when there is none); the
\* bars further back carry no crossover.  Bar k of data.rows has date k.
generate_enhanced_signals(data) ==
    [k \in 1..Len(data.rows) |->
        RawSignal(IF k = 1 THEN data.before ELSE data.rows[k - 1], data.rows[k])]

-----------------------------------------------------------------------------
(* The persistence store *)

\* a conflict target of ("Date") alone: the rows of the date, of any ticker
SignalRowsAtDate(table, date, ticker) ==
    {r \in DOMAIN table : r.Date = date}

\* the row of a table with the given key, when there is one
SignalRowsAt(table, date, ticker) ==
    {r \in DOMAIN table : r.Date = date /\ r.Ticker = ticker}

\* INSERT INTO all_signals ... with no conflict clause, on a table without the key
InsertSignal(table, p) ==
    table (+) SetToBag({[Date |-> p.date, Ticker |-> p.ticker, Signal |-> p.signal,
                         Price |-> p.price, Confidence_Pct |-> p.confidence]})

\* INSERT INTO all_signals ... ON CONFLICT ("Date", "Ticker") DO UPDATE SET
\* "Signal", "Price", "Confidence_Pct"
UpsertSignal(table, p) ==
    LET hit == SignalRowsAt(table, p.date, p.ticker) IN
    IF hit = {}
    THEN table (+) SetToBag({[Date |-> p.date, Ticker |-> p.ticker, Signal |-> p.signal,
                              Price |-> p.price, Confidence_Pct |-> p.confidence]})
    ELSE LET old == CHOOSE r \in hit : TRUE
             new == [old EXCEPT !.Signal = p.signal, !.Price = p.price,
                                !.Confidence_Pct = p.confidence]
         IN (table (-) SetToBag({old})) (+) SetToBag({new})

\* the conn.execute calls of one run, in order, inside one transaction
RECURSIVE ExecuteSignals(_, _, _)
ExecuteSignals(table, params, k) ==
    IF k > Len(params) THEN table
    ELSE ExecuteSignals(UpsertSignal(table, params[k]), params, k + 1)

ForecastRowsAt(table, ticker, date) ==
    {r \in DOMAIN table : r.Ticker = ticker /\ r.Date = date}

ForecastRow(p) ==
    [Ticker |-> p.ticker, Date |-> p.date, Forecast_Signal |-> p.signal,
     Confidence |-> p.conf, Days_To_Crossover |-> p.days, Current_Price |-> p.price,
     Gap |-> p.gap, RSI |-> p.rsi, MACD_Histogram |-> p.macd, Price_ROC |-> p.roc,
     Volume_Trend |-> p.vol, Convergence_Rate |-> p.conv]

\* INSERT INTO forecast_signals ... ON CONFLICT ("Ticker", "Date") DO UPDATE SET
\* nine columns; "Current_Price" is not among them
UpsertForecast(table, p) ==
    LET hit == ForecastRowsAt(table, p.ticker, p.date) IN
    IF hit = {}
    THEN table (+) SetToBag({ForecastRow(p)})
    ELSE LET old == CHOOSE r \in hit : TRUE
             new == [old EXCEPT !.Forecast_Signal = p.signal, !.Confidence = p.conf,
                                !.Days_To_Crossover = p.days, !.Gap = p.gap,
                                !.RSI = p.rsi, !.MACD_Histogram = p.macd,
                                !.Price_ROC = p.roc, !.Volume_Trend = p.vol,
                                !.Convergence_Rate = p.conv]
         IN (table (-) SetToBag({old})) (+) SetToBag({new})

-----------------------------------------------------------------------------
(* process_ticker_signals *)

\* if data.empty or len(data) < 200
MinBars == 200

InsufficientData(data) == data.len = 0 \/ data.len < MinBars

\* the dates of signals_to_store, ascending: data[data['Signal'] != 0]
RECURSIVE KeptDates(_, _)
KeptDates(col, k) ==
    IF k > Len(col) THEN <<>>
    ELSE (IF col[k] # NoSignal THEN <<k>> ELSE <<>>) \o KeptDates(col, k + 1)

\* the parameters of the conn.execute calls of a run, in order
SignalParams(ticker, data) ==
    LET col == cleaned_signals(generate_enhanced_signals(data))
        dates == KeptDates(col, 1)
    IN [n \in 1..Len(dates) |->
          LET row == data.rows[dates[n]] IN
          [date |-> dates[n], ticker |-> ticker,
           signal |-> (IF col[dates[n]] = Buy THEN "Buy" ELSE "Sell"),
           price |-> row.Close,
           confidence |-> calculate_confidence(row, "unique")]]

NoneResult == [kind |-> "None"]

\* yf.download raised
FetchFault == [raised |-> TRUE]

\* a run on a connection that commits every conn.execute as it is made:
\* a raise leaves the rows executed before it in the table
ProcessAutocommit(ticker, fetch, table, wfault) ==
    IF fetch.raised THEN [ret |-> NoneResult, table |-> table, params |-> <<>>]
    ELSE IF InsufficientData(fetch) THEN [ret |-> NoneResult, table |-> table, params |-> <<>>]
    ELSE LET params == SignalParams(ticker, fetch) IN
         IF Len(params) = 0
         THEN [ret |-> [kind |-> "dict", signal_count |-> 0], table |-> table, params |-> params]
         ELSE IF wfault \in 1..(Len(params) + 1)
         THEN [ret |-> NoneResult,
               table |-> ExecuteSignals(table, SubSeq(params, 1, wfault - 1), 1),
               params |-> SubSeq(params, 1, wfault - 1)]
         ELSE [ret |-> [kind |-> "dict", signal_count |-> Len(params)],
               table |-> ExecuteSignals(table, params, 1), params |-> params]

\* fetch: the fetched series, or FetchFault when yf.download raises.
\* wfault: 0 when every write succeeds; k in 1..n when the k-th conn.execute
\* raises; n + 1 when conn.commit raises (n rows to store).  A raise leaves
\* the with block before the commit, which rolls the transaction back.
\* Returns the result and the table afterwards.
process_ticker_signals(ticker, fetch, table, wfault) ==
    IF fetch.raised THEN [ret |-> NoneResult, table |-> table, params |-> <<>>]
    ELSE IF InsufficientData(fetch) THEN [ret |-> NoneResult, table |-> table, params |-> <<>>]
    ELSE LET params == SignalParams(ticker, fetch) IN
         IF Len(params) = 0
         THEN [ret |-> [kind |-> "dict", signal_count |-> 0], table |-> table, params |-> params]
         ELSE IF wfault \in 1..(Len(params) + 1)
         THEN [ret |-> NoneResult, table |-> table, params |-> SubSeq(params, 1, wfault - 1)]
         ELSE [ret |-> [kind |-> "dict", signal_count |-> Len(params)],
               table |-> ExecuteSignals(table, params, 1), params |-> params]

-----------------------------------------------------------------------------
(* generate_ticker_forecast *)

\* the last value of a rolling(window).mean(): defined when the window lies
\* in the run of f.tail consecutive non-NaN closes that ends the series;
\* back = how many bars before the last one the value is read
Rolling(window, back, tail, v) == IF tail >= window + back THEN v ELSE NaN

\* The fetched series f as the function reads it.  f.len bars, f.usable of
\* them with a non-NaN close, the last f.tail of them consecutive non-NaN.
\* f.sma50, f.sma200, f.sma50_old, f.sma200_old are the rolling means over
\* the filled windows; the oldest sampled bar is min(30, len) - 1 bars back.
Enriched(f) ==
    [len |-> f.len,
     Close |-> Rolling(1, 0, f.tail, f.close),
     SMA50 |-> Rolling(50, 0, f.tail, f.sma50),
     SMA200 |-> Rolling(200, 0, f.tail, f.sma200),
     SMA50_old |-> Rolling(50, Min(30, f.len) - 1, f.tail, f.sma50_old),
     SMA200_old |-> Rolling(200, Min(30, f.len) - 1, f.tail, f.sma200_old),
     RSI |-> f.rsi,
     MACD_Hist |-> f.macd]

\* `if days_to_cross`: None and 0.0 are false
Truthy(days) == days # None /\ days[1] # 0

\* gap_pct < k, where gap_pct = abs(current_gap) / current_price * 100 if
\* current_price > 0 else 0
GapPctLt(gap, price, k) ==
    IF Gt(price, 0) THEN Lt(Mul(100, FAbs(gap)), k * price) ELSE 0 < k

\* gap_pct as stored
GapPct(gap, price) ==
    IF ~Gt(price, 0) THEN <<0, 1>>
    ELSE IF IsNaN(gap) THEN <<NaN, 1>>
    ELSE Frac(100 * Abs(gap), price)

Neutral == [has_forecast |-> FALSE, signal |-> "NEUTRAL", confidence |-> 0]

\* a classification that sets has_forecast as soon as the gap test passes,
\* before the RSI and days-to-crossover tests
PrimaryRuleEagerFlag(gap, price, rsi, macd_hist, days) ==
    IF Lt(gap, 0) /\ GapPctLt(gap, price, 8)
    THEN IF Le(25, rsi) /\ Le(rsi, 70) /\ Truthy(days) /\ DaysLt(days, 90)
         THEN [has_forecast |-> TRUE, signal |-> "BUY_FORECAST",
               confidence |-> Min(60 + (IF Le(40, rsi) /\ Le(rsi, 60) THEN 10 ELSE 0)
                                     + (IF Gt(macd_hist, 0 - 50) THEN 5 ELSE 0)
                                     + (IF DaysLt(days, 30) THEN 10 ELSE 0), 85)]
         ELSE [has_forecast |-> TRUE, signal |-> "NEUTRAL", confidence |-> 0]
    ELSE IF Gt(gap, 0) /\ GapPctLt(gap, price, 8)
    THEN IF Le(30, rsi) /\ Le(rsi, 75) /\ Truthy(days) /\ DaysLt(days, 90)
         THEN [has_forecast |-> TRUE, signal |-> "SELL_FORECAST",
               confidence |-> Min(60 + (IF Gt(rsi, 65) THEN 10 ELSE 0)
                                     + (IF Lt(macd_hist, 0) THEN 5 ELSE 0)
                                     + (IF DaysLt(days, 30) THEN 10 ELSE 0), 85)]
         ELSE [has_forecast |-> TRUE, signal |-> "NEUTRAL", confidence |-> 0]
    ELSE Neutral

\* lines 316-344: the classification after a successful prediction
PrimaryRule(gap, price, rsi, macd_hist, days) ==
    IF Lt(gap, 0) /\ GapPctLt(gap, price, 8)
    THEN IF Le(25, rsi) /\ Le(rsi, 70) /\ Truthy(days) /\ DaysLt(days, 90)
         THEN [has_forecast |-> TRUE, signal |-> "BUY_FORECAST",
               confidence |-> Min(60 + (IF Le(40, rsi) /\ Le(rsi, 60) THEN 10 ELSE 0)
                                     + (IF Gt(macd_hist, 0 - 50) THEN 5 ELSE 0)
                                     + (IF DaysLt(days, 30) THEN 10 ELSE 0), 85)]
         ELSE Neutral
    ELSE IF Gt(gap, 0) /\ GapPctLt(gap, price, 8)
    THEN IF Le(30, rsi) /\ Le(rsi, 75) /\ Truthy(days) /\ DaysLt(days, 90)
         THEN [has_forecast |-> TRUE, signal |-> "SELL_FORECAST",
               confidence |-> Min(60 + (IF Gt(rsi, 65) THEN 10 ELSE 0)
                                     + (IF Lt(macd_hist, 0) THEN 5 ELSE 0)
                                     + (IF DaysLt(days, 30) THEN 10 ELSE 0), 85)]
         ELSE Neutral
    ELSE Neutral

\* a fallback that reuses the primary RSI band for a buy
FallbackWideBand(gap, price, rsi) ==
    IF GapPctLt(gap, price, 5)
    THEN IF Lt(gap, 0) /\ Le(25, rsi) /\ Le(rsi, 70)
         THEN [has_forecast |-> TRUE, signal |-> "BUY_FORECAST", confidence |-> 65]
         ELSE IF Gt(gap, 0) /\ Le(35, rsi) /\ Le(rsi, 75)
         THEN [has_forecast |-> TRUE, signal |-> "SELL_FORECAST", confidence |-> 65]
         ELSE Neutral
    ELSE Neutral

\* lines 348-357: the except branch
FallbackRule(gap, price, rsi) ==
    IF GapPctLt(gap, price, 5)
    THEN IF Lt(gap, 0) /\ Le(30, rsi) /\ Le(rsi, 65)
         THEN [has_forecast |-> TRUE, signal |-> "BUY_FORECAST", confidence |-> 65]
         ELSE IF Gt(gap, 0) /\ Le(35, rsi) /\ Le(rsi, 75)
         THEN [has_forecast |-> TRUE, signal |-> "SELL_FORECAST", confidence |-> 65]
         ELSE Neutral
    ELSE Neutral

\* if len(df_prophet) > 100
MinProphetRows == 100

\* lines 268-357.  prophet: "ok", or the step of the model that raises:
\* "unavailable" (Prophet(...)), "fit_fault" (model.fit), "predict_fault"
\* (model.predict).  The model is touched only with more than 100 usable rows.
Classify(f, prophet) ==
    LET d == Enriched(f)
        gap == Gap(d)
        days == calculate_days_to_crossover(d)
    IN IF f.usable > MinProphetRows
       THEN IF prophet = "ok"
            THEN PrimaryRule(gap, d.Close, d.RSI, d.MACD_Hist, days)
            ELSE FallbackRule(gap, d.Close, d.RSI)
       ELSE Neutral

\* lines 360-420: the parameters of the conn.execute call
ForecastParams(ticker, today, f, c) ==
    LET d == Enriched(f)
        gap == Gap(d)
        days == calculate_days_to_crossover(d)
    IN [ticker |-> ticker, date |-> today, signal |-> c.signal, conf |-> c.confidence,
        days |-> (IF Truthy(days) THEN days ELSE None),
        price |-> d.Close,
        gap |-> GapPct(gap, d.Close),
        rsi |-> d.RSI,
        macd |-> d.MACD_Hist,
        roc |-> (IF f.len >= 30 THEN Frac((f.close - f.close_30) * 100, f.close_30)
                 ELSE <<0, 1>>),
        vol |-> (IF f.len >= 20 /\ f.older_vol > 0
                 THEN Frac((f.recent_vol - f.older_vol) * 100, f.older_vol)
                 ELSE <<0, 1>>),
        conv |-> (IF Truthy(days) THEN Frac(Abs(gap) * days[2], days[1]) ELSE <<0, 1>>)]

\* fetch: the fetched series, or FetchFault.  wfault: 0 when the write
\* succeeds, 1 when conn.execute raises, 2 when conn.commit raises.
\* Returns the result, the table afterwards, the parameters executed and the
\* classification reached at line 359.
generate_ticker_forecast(ticker, today, fetch, prophet, table, wfault) ==
    IF fetch.raised
    THEN [ret |-> NoneResult, table |-> table, params |-> <<>>, class |-> Neutral]
    ELSE IF InsufficientData(fetch)
    THEN [ret |-> NoneResult, table |-> table, params |-> <<>>, class |-> Neutral]
    ELSE LET c == Classify(fetch, prophet) IN
         IF ~c.has_forecast
         THEN [ret |-> [kind |-> "dict", has_forecast |-> FALSE], table |-> table,
               params |-> <<>>, class |-> c]
         ELSE LET p == ForecastParams(ticker, today, fetch, c) IN
              IF wfault = 1
              THEN [ret |-> NoneResult, table |-> table, params |-> <<>>, class |-> c]
              ELSE IF wfault = 2
              THEN [ret |-> NoneResult, table |-> table, params |-> <<p>>, class |-> c]
              ELSE [ret |-> [kind |-> "dict", has_forecast |-> TRUE, signal |-> c.signal,
                             confidence |-> c.confidence,
                             days_to_cross |-> calculate_days_to_crossover(Enriched(fetch))],
                    table |-> UpsertForecast(table, p), params |-> <<p>>, class |-> c]

-----------------------------------------------------------------------------
(* Initial state *)

NoCall == [fn |-> "none"]

InitIdle ==
    /\ call = NoCall
    /\ all_signals = EmptyBag
    /\ forecast_signals = EmptyBag
    /\ tickers = <<>>
    /\ i = 0
    /\ events = <<>>
    /\ generated = 0
    /\ pc = "idle"
    /\ invoked = <<>>

-----------------------------------------------------------------------------
(* The alternation pass over every raw Signal column up to MaxLen rows *)

MaxLen == 5

RawColumns == UNION {[1..n -> {Buy, Sell, NoSignal}] : n \in 0..MaxLen}

CallAlternate ==
    /\ call.fn = "none"
    /\ \E signal \in RawColumns :
         call' = [fn |-> "alternate", signal |-> signal, ret |-> cleaned_signals(signal)]
    /\ UNCHANGED <<all_signals, forecast_signals, batch>>

NextAlt == CallAlternate

SpecAlt == InitIdle /\ [][NextAlt]_vars

\* the kept (non-None) entries of a cleaned column, in date order
Kept(col) == SelectSeq(col, LAMBDA s : s # NoSignal)

\* C1: the kept entries of the cleaned column alternate Buy, Sell, Buy, ...
\* starting with Buy (so no two consecutive kept entries share direction),
\* a kept entry is the raw entry of its date, and the column keeps its length
AlternationHolds ==
    call.fn = "alternate" =>
        LET kept == Kept(call.ret) IN
        /\ Len(call.ret) = Len(call.signal)
        /\ \A k \in 1..Len(call.ret) : call.ret[k] \in {call.signal[k], NoSignal}
        /\ \A k \in 1..Len(kept) : kept[k] = (IF k % 2 = 1 THEN Buy ELSE Sell)
        /\ \A k \in 1..(Len(kept) - 1) : kept[k] # kept[k + 1]

\* an all-Buy raw column of full length has been cleaned to a single Buy
AlternationWitness ==
    /\ call.fn = "alternate"
    /\ Len(call.signal) = MaxLen
    /\ \A k \in 1..MaxLen : call.signal[k] = Buy
    /\ Kept(call.ret) = <<Buy>>

-----------------------------------------------------------------------------
(* calculate_confidence over sampled indicator rows *)

RsiSamples == {NaN, 10, 20, 30, 40, 60, 61, 81}
MacdSamples == {NaN, 0 - 51, 0 - 50, 0, 1}
VolumeSamples == {<<NaN, 100>>, <<69, 100>>, <<70, 100>>, <<71, 100>>, <<0, 0>>}
SmaSamples == {<<NaN, NaN>>, <<10000, NaN>>, <<10000, 10000>>, <<10501, 10000>>,
               <<10500, 10000>>, <<9901, 10000>>, <<9400, 10000>>, <<100, 0>>}
LocSamples == {"unique", "absent", "duplicate"}

\* rows with every column, and rows that lack some columns
ConfRows ==
    {[RSI |-> r, MACD_Hist |-> m, Volume |-> v[1], Volume_MA |-> v[2],
      SMA50 |-> s[1], SMA200 |-> s[2], Close |-> 10000] :
        r \in RsiSamples, m \in MacdSamples, v \in VolumeSamples, s \in SmaSamples}
    \cup {[Close |-> c] : c \in {NaN, 10000}}
    \cup {[Volume |-> v, Close |-> 10000, RSI |-> r] : v \in {NaN, 100}, r \in RsiSamples}
    \cup {[f \in {} |-> 0]}

CallConfidence ==
    /\ call.fn = "none"
    /\ \E row \in ConfRows, loc \in LocSamples :
         call' = [fn |-> "calculate_confidence", row |-> row, loc |-> loc,
                  ret |-> calculate_confidence(row, loc)]
    /\ UNCHANGED <<all_signals, forecast_signals, batch>>

NextConf == CallConfidence

SpecConf == InitIdle /\ [][NextConf]_vars

\* C3: the confidence is within [40, 95] for every row and date, and a
\* faulting computation (date absent from or ambiguous in the index) gives 65
ConfidenceBounded ==
    call.fn = "calculate_confidence" =>
        /\ 40 <= call.ret /\ call.ret <= 95
        /\ (call.loc # "unique" => call.ret = 65)

\* a row with an undefined field was scored, and a faulting call returned the default
ConfidenceWitnessNaN ==
    /\ call.fn = "calculate_confidence"
    /\ call.loc = "unique"
    /\ "RSI" \in DOMAIN call.row /\ IsNaN(call.row.RSI)
    /\ "SMA200" \in DOMAIN call.row /\ IsNaN(call.row.SMA200)
    /\ call.ret = 45

-----------------------------------------------------------------------------
(* calculate_days_to_crossover over sampled series *)

LenSamples == {19, 20, 250}
CloseSamples == {5000, 10000}
Sma50Samples == {NaN, 9700, 9900, 9901, 9950, 10000, 10050, 10099, 10100, 10300}
OldGapSamples == {NaN, 0 - 400, 0 - 300, 0 - 102, 0 - 100, 0 - 51, 0,
                  48, 51, 100, 103, 300, 400}

CrossInputs ==
    {[len |-> n, SMA50 |-> s, SMA200 |-> 10000, Close |-> c,
      SMA50_old |-> (IF IsNaN(g) THEN NaN ELSE 10000 + g), SMA200_old |-> 10000] :
        n \in LenSamples, s \in Sma50Samples, c \in CloseSamples, g \in OldGapSamples}

CallDaysToCrossover ==
    /\ call.fn = "none"
    /\ \E d \in CrossInputs :
         call' = [fn |-> "calculate_days_to_crossover", data |-> d,
                  ret |-> calculate_days_to_crossover(d)]
    /\ UNCHANGED <<all_signals, forecast_signals, batch>>

NextCross == CallDaysToCrossover

SpecCross == InitIdle /\ [][NextCross]_vars

\* the current gap and the convergence rate are both positive or both negative
SameSign(d) ==
    /\ ~IsNaN(Gap(d)) /\ ~IsNaN(GapChange(d))
    /\ \/ Gap(d) > 0 /\ GapChange(d) > 0
       \/ Gap(d) < 0 /\ GapChange(d) < 0

\* C4 as stated: gap and rate of the same sign give None whatever the size of the gap
SameSignUndefinedAlways ==
    call.fn = "calculate_days_to_crossover" =>
        (SameSign(call.data) => call.ret = None)

\* C4 amended: gap and rate of the same sign give None when the gap is at
\* least 1% of the current price; a smaller gap gives 0 whatever the signs
SameSignUndefinedUnlessClose ==
    call.fn = "calculate_days_to_crossover" =>
        /\ (SameSign(call.data) /\ 100 * Abs(Gap(call.data)) >= call.data.Close
                => call.ret = None)
        /\ (SameSign(call.data) /\ 100 * Abs(Gap(call.data)) < call.data.Close
            /\ call.data.len >= 20
                => call.ret = ZeroDays)

\* a widening gap of 3% of the price, with a rate that is not flat, was estimated
SameSignWitness ==
    /\ call.fn = "calculate_days_to_crossover"
    /\ call.data.len = 250
    /\ Gap(call.data) = 300 /\ GapChange(call.data) = 200
    /\ call.data.Close = 10000
    /\ call.ret = None

-----------------------------------------------------------------------------
(* generate_ticker_forecast, one call over sampled series *)

\* (len, usable, tail) of the sampled series
ShapeSamples == {<<250, 250, 250>>, <<250, 210, 210>>, <<250, 101, 101>>,
                 <<250, 100, 100>>, <<250, 99, 99>>, <<199, 199, 199>>}
FcSma50Samples == {9100, 9200, 9201, 9500, 9700, 9950, 10300, 10501, 10801}
FcOldSamples == {9300, 9590, 9600, 9800, 10410, 10700}
FcRsiSamples == {NaN, 24, 25, 30, 35, 50, 65, 66, 70, 71, 75, 76}
FcMacdSamples == {0 - 51, 10}
ProphetOutcomes == {"ok", "unavailable", "fit_fault", "predict_fault"}

Series(shape, close, sma50, sma50_old, rsi, macd) ==
    [raised |-> FALSE, len |-> shape[1], usable |-> shape[2], tail |-> shape[3],
     close |-> close, sma50 |-> sma50, sma200 |-> 10000,
     sma50_old |-> sma50_old, sma200_old |-> 10000, rsi |-> rsi, macd |-> macd,
     close_30 |-> 9500, recent_vol |-> 1100, older_vol |-> 1000]

FcInputs ==
    {Series(sh, 10000, s, o, r, m) :
        sh \in ShapeSamples, s \in FcSma50Samples, o \in FcOldSamples,
        r \in FcRsiSamples, m \in FcMacdSamples}

\* one call of generate_ticker_forecast, as the variables see it
ForecastCall(ticker, today, fetch, prophet, wfault) ==
    LET out == generate_ticker_forecast(ticker, today, fetch, prophet,
                                        forecast_signals, wfault)
    IN /\ call' = [fn |-> "generate_ticker_forecast", ticker |-> ticker, today |-> today,
                   fetch |-> fetch, prophet |-> prophet, wfault |-> wfault,
                   existed |-> (ForecastRowsAt(forecast_signals, ticker, today) # {}),
                   repeat |-> (/\ call.fn = "generate_ticker_forecast"
                               /\ call.ret.kind = "dict"
                               /\ out.ret.kind = "dict"
                               /\ out.params # <<>>
                               /\ call.params = out.params),
                   ret |-> out.ret, params |-> out.params, class |-> out.class]
       /\ forecast_signals' = out.table
       /\ UNCHANGED <<all_signals, batch>>

ClassifyOnce ==
    /\ call.fn = "none"
    /\ \E f \in FcInputs, prophet \in ProphetOutcomes, wfault \in {0, 1} :
         ForecastCall("AAA", 1, f, prophet, wfault)

NextForecast == ClassifyOnce

SpecForecast == InitIdle /\ [][NextForecast]_vars

\* the call took the primary path: the series passed the length guard and
\* the model was fitted and predicted on more than 100 usable closes
OnPrimaryPath ==
    /\ call.fn = "generate_ticker_forecast"
    /\ ~call.fetch.raised /\ ~InsufficientData(call.fetch)
    /\ call.fetch.usable > 100
    /\ call.prophet = "ok"

\* the quantities the classification reads, recomputed from the series
CallGap == Gap(Enriched(call.fetch))
CallPrice == Enriched(call.fetch).Close
CallRsi == Enriched(call.fetch).RSI
CallDays == calculate_days_to_crossover(Enriched(call.fetch))

\* gap-% < k, for a defined gap and a positive price
CallGapPctBelow(k) ==
    ~IsNaN(CallGap) /\ ~IsNaN(CallPrice) /\ CallPrice > 0
    /\ 100 * Abs(CallGap) < k * CallPrice

CallRsiWithin(lo, hi) == ~IsNaN(CallRsi) /\ lo <= CallRsi /\ CallRsi <= hi

\* C5 as stated: on the primary path BUY_FORECAST exactly when gap < 0,
\* gap-% < 8, 25 <= RSI <= 70 and days-to-crossover is defined (any value of
\* [0, 365], 0 included) and < 90; SELL_FORECAST exactly when gap > 0,
\* gap-% < 8, 30 <= RSI <= 75 and days defined and < 90; NEUTRAL otherwise
PrimaryClassification ==
    OnPrimaryPath =>
        LET soon == CallDays # None /\ CallDays[1] < 90 * CallDays[2]
            buy == /\ ~IsNaN(CallGap) /\ CallGap < 0 /\ CallGapPctBelow(8)
                   /\ CallRsiWithin(25, 70) /\ soon
            sell == /\ ~IsNaN(CallGap) /\ CallGap > 0 /\ CallGapPctBelow(8)
                    /\ CallRsiWithin(30, 75) /\ soon
        IN /\ (call.class.signal = "BUY_FORECAST") = buy
           /\ (call.class.signal = "SELL_FORECAST") = sell
           /\ (call.class.signal = "NEUTRAL") = (~buy /\ ~sell)

\* the call fell back: the model raised, or fewer than 100 usable closes
OnFallbackPath ==
    /\ call.fn = "generate_ticker_forecast"
    /\ ~call.fetch.raised /\ ~InsufficientData(call.fetch)
    /\ (call.prophet # "ok" \/ call.fetch.usable < 100)

\* C8: when the model is unavailable, fit or predict fails, or fewer than
\* 100 closes are usable, the outcome is BUY_FORECAST at 65 exactly when
\* gap-% < 5, gap < 0 and 30 <= RSI <= 65, SELL_FORECAST at 65 exactly when
\* gap-% < 5, gap > 0 and 35 <= RSI <= 75, NEUTRAL otherwise; and the call
\* returns a result unless the write itself faults
FallbackClassification ==
    OnFallbackPath =>
        LET buy == /\ CallGapPctBelow(5) /\ CallGap < 0 /\ CallRsiWithin(30, 65)
            sell == /\ CallGapPctBelow(5) /\ CallGap > 0 /\ CallRsiWithin(35, 75)
        IN /\ (call.class.signal = "BUY_FORECAST") = buy
           /\ (call.class.signal = "SELL_FORECAST") = sell
           /\ (call.class.signal = "NEUTRAL") = (~buy /\ ~sell)
           /\ (call.class.signal # "NEUTRAL" => call.class.confidence = 65)
           /\ (call.class.signal # "NEUTRAL") = call.class.has_forecast
           /\ (call.wfault = 0 => call.ret.kind = "dict"
                                  /\ call.ret.has_forecast = call.class.has_forecast)

\* the model's fit raised on a series with a 3% negative gap and RSI 65,
\* and the call returned a BUY_FORECAST at confidence 65
FallbackWitness ==
    /\ OnFallbackPath
    /\ call.prophet = "fit_fault"
    /\ CallGap = 0 - 300 /\ CallRsi = 65
    /\ call.ret.kind = "dict" /\ call.ret.has_forecast
    /\ call.ret.signal = "BUY_FORECAST" /\ call.ret.confidence = 65

-----------------------------------------------------------------------------
(* The engine over the store: repeated runs for one ticker *)

Tickers == {"AAA", "BBB"}

\* the tickers the engine is run for
RunTickers == {"AAA"}

\* sampled enriched bars: SMA50 above SMA200 and below it
BarUp == [Close |-> 10200, Volume |-> 100, SMA50 |-> 10100, SMA200 |-> 10000,
          RSI |-> 50, MACD_Hist |-> 10, Volume_MA |-> 100]
BarDown == [Close |-> 9800, Volume |-> 100, SMA50 |-> 9900, SMA200 |-> 10000,
            RSI |-> 70, MACD_Hist |-> 0 - 60, Volume_MA |-> 100]

BarSamples == {BarUp, BarDown}

\* the number of dated bars of a sampled series
DatedBars == 2

SignalFetches ==
    {[raised |-> FALSE, len |-> 250, before |-> b, rows |-> r] :
        b \in {BarDown, UndefinedBar}, r \in [1..DatedBars -> BarSamples]}
    \cup {[raised |-> FALSE, len |-> n, before |-> UndefinedBar, rows |-> <<>>] : n \in {0, 199}}
    \cup {FetchFault}

ProcessTickerSignals ==
    \E ticker \in RunTickers, fetch \in SignalFetches, wfault \in 0..(DatedBars + 1) :
        LET out == process_ticker_signals(ticker, fetch, all_signals, wfault) IN
        /\ call' = [fn |-> "process_ticker_signals", ticker |-> ticker,
                    short |-> (~fetch.raised /\ InsufficientData(fetch)),
                    raised |-> fetch.raised, wfault |-> wfault,
                    existed |-> {k \in 1..Len(out.params) :
                                   SignalRowsAt(all_signals, out.params[k].date, ticker) # {}},
                    repeat |-> (/\ call.fn = "process_ticker_signals"
                                /\ call.ret.kind = "dict"
                                /\ out.ret.kind = "dict"
                                /\ out.params # <<>>
                                /\ call.params = out.params),
                    ret |-> out.ret, params |-> out.params]
        /\ all_signals' = out.table
        /\ UNCHANGED <<forecast_signals, batch>>

\* a buy, a sell at another price, a neutral and a short series
ForecastFetches ==
    {Series(<<250, 250, 250>>, 10000, 9700, 9300, 50, 10),
     Series(<<250, 250, 250>>, 10100, 10300, 10700, 70, 0 - 10),
     Series(<<250, 250, 250>>, 10000, 9000, 9000, 50, 10),
     Series(<<199, 199, 199>>, 10000, 9700, 9300, 50, 10),
     FetchFault}

RunDates == {1}

GenerateTickerForecast ==
    \E ticker \in RunTickers, today \in RunDates, fetch \in ForecastFetches,
       prophet \in {"ok", "fit_fault"}, wfault \in 0..2 :
        ForecastCall(ticker, today, fetch, prophet, wfault)

Next == ProcessTickerSignals \/ GenerateTickerForecast

Spec == InitIdle /\ [][Next]_vars

\* the last call was made on a series that is empty or shorter than 200 bars
ShortSeriesCall ==
    \/ call.fn = "process_ticker_signals" /\ call.short
    \/ /\ call.fn = "generate_ticker_forecast"
       /\ ~call.fetch.raised /\ InsufficientData(call.fetch)

\* C2 as stated: on an empty or shorter-than-200 series process_ticker_signals
\* returns signal_count = 0 and generate_ticker_forecast returns
\* has_forecast = false, never the None result, and nothing is executed
ShortSeriesIsNotAFault ==
    ShortSeriesCall =>
        /\ call.ret.kind = "dict"
        /\ (call.fn = "process_ticker_signals" => call.ret.signal_count = 0)
        /\ (call.fn = "generate_ticker_forecast" => call.ret.has_forecast = FALSE)
        /\ call.params = <<>>

\* the stored all_signals row of a parameter set carries its values
SignalStored(p) ==
    \E r \in SignalRowsAt(all_signals, p.date, p.ticker) :
        r.Signal = p.signal /\ r.Price = p.price /\ r.Confidence_Pct = p.confidence

\* the stored forecast_signals row of a parameter set carries all its values
ForecastStored(p) ==
    \E r \in ForecastRowsAt(forecast_signals, p.ticker, p.date) : r = ForecastRow(p)

\* C6 as stated: after a run persisted onto an existing key, every non-key
\* field of the stored row equals the value computed by the run, in
\* forecast_signals (Current_Price included) and in all_signals
UpsertOverwritesAll ==
    /\ (call.fn = "generate_ticker_forecast" /\ call.ret.kind = "dict" /\ call.existed
            => \A k \in 1..Len(call.params) : ForecastStored(call.params[k]))
    /\ (call.fn = "process_ticker_signals" /\ call.ret.kind = "dict"
            => \A k \in call.existed : SignalStored(call.params[k]))

\* no key of a table is held by two rows
NoDuplicateKey ==
    /\ \A r \in DOMAIN all_signals :
         all_signals[r] = 1 /\ SignalRowsAt(all_signals, r.Date, r.Ticker) = {r}
    /\ \A r \in DOMAIN forecast_signals :
         forecast_signals[r] = 1 /\ ForecastRowsAt(forecast_signals, r.Ticker, r.Date) = {r}

\* the step persists again the rows the previous step persisted
PersistsAgain ==
    /\ call.fn \in {"process_ticker_signals", "generate_ticker_forecast"}
    /\ call'.fn = call.fn
    /\ call.ret.kind = "dict" /\ call'.ret.kind = "dict"
    /\ call.params # <<>>
    /\ call'.params = call.params

\* C7: persisting identical rows a second time leaves both tables as they
\* were after the first time, with one row per key
PersistenceIdempotent ==
    [][PersistsAgain => /\ all_signals' = all_signals
                        /\ forecast_signals' = forecast_signals
                        /\ NoDuplicateKey']_vars

\* two signal rows have just been persisted a second time
PersistedTwiceWitness ==
    /\ call.fn = "process_ticker_signals"
    /\ call.repeat
    /\ Len(call.params) = 2
    /\ \A k \in 1..2 : SignalStored(call.params[k])

-----------------------------------------------------------------------------
(* app.py: the batch scans mass_scan and forecast_scan *)

\* the longest ticker list of a sampled scan
MaxTickers == 2

TickerLists == UNION {[1..n -> Tickers] : n \in 1..MaxTickers}

\* stream_log(message): message is <<what, ticker, number>>
Log(what, ticker, n) == [complete |-> FALSE, error |-> FALSE, what |-> what,
                         ticker |-> ticker, n |-> n]

\* data: {"complete": True, "signals" / "forecasts": n} or {"complete": True, "error": True}
Complete(error, n) == [complete |-> TRUE, error |-> error, what |-> "complete",
                       ticker |-> "", n |-> n]

\* lines 47-71 and 107-130: up to the first ticker.  setup is what the
\* connection and the ticker query give: "no_engine", "query_raises" (the
\* outer except), "no_tickers" (empty table and unreadable CSV), or "ok"
ScanStart ==
    /\ pc = "idle"
    /\ \E scan \in {"mass", "forecast"},
          setup \in {"ok", "no_engine", "query_raises", "no_tickers"},
          list \in TickerLists :
         LET head == <<Log("starting", "", 0), Log("connecting", "", 0)>> IN
         IF setup = "ok"
         THEN /\ tickers' = list
              /\ events' = head \o <<Log("processing_n", "", Len(list))>>
              /\ pc' = scan
         ELSE /\ tickers' = <<>>
              /\ events' = head \o <<Log(setup, "", 0), Complete(TRUE, 0)>>
              /\ pc' = "done"
    /\ i' = 0
    /\ generated' = 0
    /\ invoked' = <<>>
    /\ UNCHANGED <<call, all_signals, forecast_signals>>

\* the series a scan fetches
ScanSignalFetches ==
    {[raised |-> FALSE, len |-> 250, before |-> BarDown, rows |-> <<BarUp, BarDown>>],
     [raised |-> FALSE, len |-> 250, before |-> BarDown, rows |-> <<BarDown, BarDown>>],
     [raised |-> FALSE, len |-> 199, before |-> UndefinedBar, rows |-> <<>>],
     FetchFault}

\* an exception of the engine call that is not caught in the loop: it
\* reaches the outer except, which ends the stream
OuterExcept(ticker) ==
    [events |-> <<Log("critical", ticker, 0), Complete(TRUE, 0)>>, ends |-> TRUE]

\* lines 87-88 and 146-147: the except branch inside the loop
InnerExcept(ticker) ==
    [events |-> <<Log("error", ticker, 0)>>, ends |-> FALSE]

\* what happened inside the engine call, from its inputs and result
Cause(fetch, ret, emitted, escapes) ==
    IF fetch.raised THEN (IF escapes THEN "raise" ELSE "provider_fault")
    ELSE IF InsufficientData(fetch) THEN "insufficient"
    ELSE IF ret.kind = "None" THEN (IF escapes THEN "raise" ELSE "persistence_fault")
    ELSE IF emitted THEN "emitted" ELSE "nothing"

\* lines 77-88: one turn of the loop of mass_scan.  escapes: the except
\* branch of process_ticker_signals itself raises (its print fails), which
\* is the only way an exception reaches the caller
MassScanTicker ==
    /\ pc = "mass"
    /\ i < Len(tickers)
    /\ \E fetch \in ScanSignalFetches, wfault \in 0..1, escapes \in BOOLEAN :
         LET ticker == tickers[i + 1]
             out == process_ticker_signals(ticker, fetch, all_signals, wfault)
             handled == IF fetch.raised THEN TRUE
                        ELSE ~InsufficientData(fetch) /\ out.ret.kind = "None"
             caught == InnerExcept(ticker)
             reports == IF escapes THEN caught.events
                        ELSE IF out.ret.kind = "dict"
                        THEN <<Log("signals", ticker, out.ret.signal_count)>>
                        ELSE <<Log("no_data", ticker, 0)>>
             report == reports[1]
         IN /\ escapes => handled
            /\ all_signals' = out.table
            /\ generated' = (IF ~escapes /\ out.ret.kind = "dict"
                             THEN generated + out.ret.signal_count ELSE generated)
            /\ events' = events \o <<Log("processing", ticker, i + 1)>> \o reports
            /\ pc' = (IF escapes /\ caught.ends THEN "done" ELSE pc)
            /\ invoked' = Append(invoked,
                 [ticker |-> ticker, report |-> report.what,
                  cause |-> Cause(fetch, out.ret,
                                  out.ret.kind = "dict" /\ out.ret.signal_count > 0, escapes)])
    /\ i' = i + 1
    /\ UNCHANGED <<call, forecast_signals, tickers>>

\* lines 136-147: one turn of the loop of forecast_scan
ForecastScanTicker ==
    /\ pc = "forecast"
    /\ i < Len(tickers)
    /\ \E fetch \in ForecastFetches, wfault \in 0..1, escapes \in BOOLEAN :
         LET ticker == tickers[i + 1]
             out == generate_ticker_forecast(ticker, 1, fetch, "ok", forecast_signals, wfault)
             handled == IF fetch.raised THEN TRUE
                        ELSE ~InsufficientData(fetch) /\ out.ret.kind = "None"
             has == out.ret.kind = "dict" /\ out.ret.has_forecast
             caught == InnerExcept(ticker)
             reports == IF escapes THEN caught.events
                        ELSE IF has THEN <<Log(out.ret.signal, ticker, out.ret.confidence)>>
                        ELSE <<Log("neutral", ticker, 0)>>
             report == reports[1]
         IN /\ escapes => handled
            /\ forecast_signals' = out.table
            /\ generated' = (IF ~escapes /\ has THEN generated + 1 ELSE generated)
            /\ events' = events \o <<Log("analyzing", ticker, i + 1)>> \o reports
            /\ pc' = (IF escapes /\ caught.ends THEN "done" ELSE pc)
            /\ invoked' = Append(invoked,
                 [ticker |-> ticker, report |-> report.what,
                  cause |-> Cause(fetch, out.ret, has, escapes)])
    /\ i' = i + 1
    /\ UNCHANGED <<call, all_signals, tickers>>

\* lines 90-94 and 149-153: after the last ticker
ScanFinish ==
    /\ pc \in {"mass", "forecast"}
    /\ i = Len(tickers)
    /\ events' = events \o <<Log("run_complete", "", 0), Log("generated", "", generated),
                             Log("synced", "", 0), Complete(FALSE, generated)>>
    /\ pc' = "done"
    /\ UNCHANGED <<call, all_signals, forecast_signals, tickers, i, generated, invoked>>

NextBatch == ScanStart \/ MassScanTicker \/ ForecastScanTicker \/ ScanFinish

\* a started generator is consumed to its end, and every engine call returns
SpecBatch ==
    /\ InitIdle
    /\ [][NextBatch]_vars
    /\ WF_vars(MassScanTicker) /\ WF_vars(ForecastScanTicker) /\ WF_vars(ScanFinish)

\* the positions of the 'complete' events in the stream
CompleteEvents == {k \in 1..Len(events) : events[k].complete}

\* the tickers of the engine calls made so far are the first i of the list, in order
InvokedInOrder ==
    /\ Len(invoked) = i
    /\ i <= Len(tickers)
    /\ \A k \in 1..i : invoked[k].ticker = tickers[k]

\* a finished scan called the engine once per list entry and closed the stream
FinishedScan ==
    pc = "done" =>
        /\ i = Len(tickers)
        /\ CompleteEvents = {Len(events)}

\* C9: in a batch scan each ticker of the list is invoked exactly once, in
\* list order, whatever the earlier tickers' outcomes (result, None, raised
\* exception); no 'complete' event is sent before the end; and a started
\* scan eventually ends with exactly one 'complete' event, all tickers done
BatchIsolation ==
    /\ [](InvokedInOrder /\ FinishedScan /\ (pc # "done" => CompleteEvents = {}))
    /\ (pc \in {"mass", "forecast"}) ~> (pc = "done" /\ Len(invoked) = Len(tickers))

\* a scan finished in which the first ticker raised, the second returned
\* None and the stream ended with its single 'complete' event
BatchWitness ==
    /\ pc = "done"
    /\ Len(tickers) = 2
    /\ invoked[1].cause = "raise" /\ invoked[1].report = "error"
    /\ invoked[2].cause = "insufficient"
    /\ events[Len(events)].complete /\ ~events[Len(events)].error

\* the engine call ended in a fault of the provider or of the store
Faulted(k) == invoked[k].cause \in {"provider_fault", "persistence_fault"}

\* the ticker was skipped for a short series, or succeeded with nothing to emit
Unremarkable(k) == invoked[k].cause \in {"insufficient", "nothing"}

\* C10 as stated: the outcome reported for a ticker whose fetch or write
\* faulted differs from the outcome reported for a ticker skipped for
\* insufficient data and from that of a ticker with nothing to emit
FaultIsSurfaced ==
    \A j, k \in 1..Len(invoked) :
        Faulted(j) /\ Unremarkable(k) => invoked[j].report # invoked[k].report

-----------------------------------------------------------------------------
(* Atomicity of a run's writes *)

\* the step is an engine run that ended in the None result
FaultedRun ==
    /\ call'.fn \in {"process_ticker_signals", "generate_ticker_forecast"}
    /\ call'.ret.kind = "None"

\* the step is an engine run that returned a result after executing rows
CommittedRun ==
    /\ call'.fn \in {"process_ticker_signals", "generate_ticker_forecast"}
    /\ call'.ret.kind = "dict"

\* every row the run executed has its key in the table afterwards
AllRowsPresent ==
    \A k \in 1..Len(call'.params) :
        IF call'.fn = "process_ticker_signals"
        THEN \E r \in DOMAIN all_signals' :
                /\ r.Date = call'.params[k].date /\ r.Ticker = call'.params[k].ticker
                /\ r.Signal = call'.params[k].signal
        ELSE \E r \in DOMAIN forecast_signals' :
                /\ r.Ticker = call'.params[k].ticker /\ r.Date = call'.params[k].date
                /\ r.Forecast_Signal = call'.params[k].signal

\* C11: a run that faults before its commit (fetch, computation, any
\* conn.execute of the loop, or the commit itself) leaves both tables as
\* they were; a run that commits has all its rows in the table together
NoPartialWrite ==
    [][/\ FaultedRun => /\ all_signals' = all_signals
                        /\ forecast_signals' = forecast_signals
       /\ CommittedRun => AllRowsPresent]_vars

\* a run with two signals to store faulted at its second conn.execute, and
\* the row of the first is not in the table
MidLoopFaultWitness ==
    /\ call.fn = "process_ticker_signals"
    /\ call.ret.kind = "None"
    /\ call.wfault = 2
    /\ Len(call.params) = 1
    /\ \A r \in DOMAIN all_signals : r.Date # call.params[1].date

-----------------------------------------------------------------------------
(* The forecast rows that are persisted *)

\* the call classified a series that passed the length guard
ClassifiedCall ==
    /\ call.fn = "generate_ticker_forecast"
    /\ ~call.fetch.raised /\ ~InsufficientData(call.fetch)

\* C12: every persisted forecast row, from the primary or the fallback
\* path, is a BUY_FORECAST or a SELL_FORECAST with confidence in [0, 85]; a
\* NEUTRAL outcome executes nothing, stores no row and returns
\* has_forecast = false
ForecastRowsWellFormed ==
    /\ \A r \in DOMAIN forecast_signals :
         /\ r.Forecast_Signal \in {"BUY_FORECAST", "SELL_FORECAST"}
         /\ 0 <= r.Confidence /\ r.Confidence <= 85
    /\ (ClassifiedCall /\ call.class.signal = "NEUTRAL"
            => /\ call.params = <<>>
               /\ forecast_signals = EmptyBag
               /\ call.ret.kind = "dict"
               /\ call.ret.has_forecast = FALSE)
    /\ (ClassifiedCall /\ call.ret.kind = "dict" /\ call.ret.has_forecast
            => /\ call.ret.signal \in {"BUY_FORECAST", "SELL_FORECAST"}
               /\ 0 <= call.ret.confidence /\ call.ret.confidence <= 85)

\* a BUY_FORECAST at the cap of 85 from the primary path is in the table
ForecastRowWitness ==
    /\ OnPrimaryPath
    /\ \E r \in DOMAIN forecast_signals :
         r.Forecast_Signal = "BUY_FORECAST" /\ r.Confidence = 85

-----------------------------------------------------------------------------
(* generate_enhanced_signals over sampled bars *)

RawSmaSamples == {<<NaN, NaN>>, <<10000, NaN>>, <<9900, 10000>>, <<10000, 10000>>,
                  <<10100, 10000>>}
RawRsiSamples == {NaN, 25, 50, 65, 70, 75}
RawMacdSamples == {NaN, 0 - 50, 0 - 10, 0, 10}

RawBar(s, rsi, macd) ==
    [Close |-> 10000, Volume |-> 100, SMA50 |-> s[1], SMA200 |-> s[2],
     RSI |-> rsi, MACD_Hist |-> macd, Volume_MA |-> 100]

\* a series whose last two bars and the bar before them are sampled
RawSeries ==
    {[len |-> 250, before |-> RawBar(s0, 50, 0),
      rows |-> <<RawBar(s1, r1, m1), RawBar(s2, r2, m2)>>] :
        s0 \in RawSmaSamples, s1 \in RawSmaSamples, r1 \in RawRsiSamples,
        m1 \in RawMacdSamples, s2 \in RawSmaSamples, r2 \in {NaN, 50, 70},
        m2 \in {0 - 10, 10}}

CallEnhancedSignals ==
    /\ call.fn = "none"
    /\ \E data \in RawSeries :
         call' = [fn |-> "generate_enhanced_signals", data |-> data,
                  ret |-> generate_enhanced_signals(data)]
    /\ UNCHANGED <<all_signals, forecast_signals, batch>>

NextRaw == CallEnhancedSignals

SpecRaw == InitIdle /\ [][NextRaw]_vars

\* the bar before date t of the call
BarBefore(t) == IF t = 1 THEN call.data.before ELSE call.data.rows[t - 1]

\* both averages are defined at t and at t-1
AveragesDefined(t) ==
    /\ call.data.rows[t].SMA50 # NaN /\ call.data.rows[t].SMA200 # NaN
    /\ BarBefore(t).SMA50 # NaN /\ BarBefore(t).SMA200 # NaN

BuyCase(t) ==
    LET cur == call.data.rows[t]  prev == BarBefore(t) IN
    /\ AveragesDefined(t)
    /\ cur.SMA50 > cur.SMA200 /\ prev.SMA50 <= prev.SMA200
    /\ cur.RSI # NaN /\ 25 < cur.RSI /\ cur.RSI < 75
    /\ cur.MACD_Hist # NaN /\ cur.MACD_Hist > 0 - 50

SellCase(t) ==
    LET cur == call.data.rows[t]  prev == BarBefore(t) IN
    /\ AveragesDefined(t)
    /\ cur.SMA50 < cur.SMA200 /\ prev.SMA50 >= prev.SMA200
    /\ \/ cur.RSI # NaN /\ cur.RSI > 65
       \/ cur.MACD_Hist # NaN /\ cur.MACD_Hist < 0

\* C13: the raw signal at t is Buy exactly on an upward crossover with
\* 25 < RSI < 75 and MACD histogram > -0.5, Sell exactly on a downward
\* crossover with RSI > 65 or MACD histogram < 0, and none otherwise; the two
\* never hold together, and no signal is raised where SMA50 or SMA200 is
\* undefined at t or at t-1
RawSignalRule ==
    call.fn = "generate_enhanced_signals" =>
        \A t \in 1..Len(call.ret) :
            /\ call.ret[t] = Buy <=> BuyCase(t)
            /\ call.ret[t] = Sell <=> SellCase(t)
            /\ call.ret[t] \in {Buy, Sell, NoSignal}
            /\ ~(BuyCase(t) /\ SellCase(t))
            /\ ~AveragesDefined(t) => call.ret[t] = NoSignal

\* a Buy raised at date 2 from equal averages at date 1, and date 1, whose
\* previous SMA200 is undefined, raised nothing
RawSignalWitness ==
    /\ call.fn = "generate_enhanced_signals"
    /\ call.ret[2] = Buy
    /\ call.data.rows[1].SMA50 = call.data.rows[1].SMA200
    /\ call.data.before.SMA200 = NaN
    /\ call.data.rows[1].SMA200 # NaN
    /\ call.ret[1] = NoSignal

-----------------------------------------------------------------------------
(* The confidence of a row with every field defined *)

ScoredFields == {"RSI", "MACD_Hist", "Volume", "Volume_MA", "SMA50", "SMA200"}

\* the call scored a row, found at a unique position, whose six fields are
\* present and defined, with the positive SMA200 of a price series
DefinedRowScored ==
    /\ call.fn = "calculate_confidence"
    /\ call.loc = "unique"
    /\ ScoredFields \subseteq DOMAIN call.row
    /\ \A f \in ScoredFields : call.row[f] # NaN
    /\ call.row.SMA200 > 0

RsiTerm ==
    LET rsi == call.row.RSI IN
    IF 40 <= rsi /\ rsi <= 60 THEN 15
    ELSE IF 30 <= rsi /\ rsi <= 70 THEN 10
    ELSE IF 20 <= rsi /\ rsi <= 80 THEN 5
    ELSE 0

MacdTerm ==
    IF call.row.MACD_Hist > 0 THEN 10
    ELSE IF call.row.MACD_Hist < 0 - 50 THEN 0 - 5
    ELSE 0

\* |SMA50 - SMA200| / SMA200 x 100, compared after multiplying by SMA200 > 0
GapTerm ==
    LET d == IF call.row.SMA50 >= call.row.SMA200
             THEN call.row.SMA50 - call.row.SMA200
             ELSE call.row.SMA200 - call.row.SMA50
    IN IF 100 * d > 5 * call.row.SMA200 THEN 5
       ELSE IF 100 * d < call.row.SMA200 THEN 0 - 5
       ELSE 0

Clamp(x, lo, hi) == IF x < lo THEN lo ELSE IF x > hi THEN hi ELSE x

\* C14 as stated: the score is clamp(50 + r + m + v + g, 40, 95) with
\* v = +5 when Volume >= 0.7 x Volume-MA, the boundary included
ConfidenceSumInclusive ==
    DefinedRowScored =>
        call.ret = Clamp(50 + RsiTerm + MacdTerm
                            + (IF 10 * call.row.Volume >= 7 * call.row.Volume_MA
                               THEN 5 ELSE 0)
                            + GapTerm, 40, 95)

\* C14 amended: the score is clamp(50 + r + m + v + g, 40, 95) with
\* v = +5 when Volume > 0.7 x Volume-MA strictly, and v = 0 at the boundary
ConfidenceSumStrict ==
    DefinedRowScored =>
        call.ret = Clamp(50 + RsiTerm + MacdTerm
                            + (IF 10 * call.row.Volume > 7 * call.row.Volume_MA
                               THEN 5 ELSE 0)
                            + GapTerm, 40, 95)

\* a defined row at the boundary Volume = 0.7 x Volume-MA scored
\* 50 + 15 + 10 + 0 + 5
ConfidenceBoundaryWitness ==
    /\ DefinedRowScored
    /\ call.row.Volume = 70 /\ call.row.Volume_MA = 100
    /\ call.row.RSI = 40 /\ call.row.MACD_Hist = 1
    /\ call.row.SMA50 = 10501 /\ call.row.SMA200 = 10000
    /\ call.ret = 80

-----------------------------------------------------------------------------
(* process_ticker_signals run for several tickers over one table *)

\* call.dates: the dates whose signal the alternation pass of the run kept
ProcessSignalsOfTickers ==
    \E ticker \in Tickers, fetch \in SignalFetches, wfault \in 0..(DatedBars + 1) :
        LET out == process_ticker_signals(ticker, fetch, all_signals, wfault)
            col == IF fetch.raised \/ InsufficientData(fetch) THEN <<>>
                   ELSE cleaned_signals(generate_enhanced_signals(fetch))
        IN
        /\ call' = [fn |-> "process_ticker_signals", ticker |-> ticker,
                    dates |-> {k \in 1..Len(col) : col[k] # NoSignal},
                    ret |-> out.ret]
        /\ all_signals' = out.table
        /\ UNCHANGED <<forecast_signals, batch>>

NextSignals == ProcessSignalsOfTickers

SpecSignals == InitIdle /\ [][NextSignals]_vars

\* the row is outside the keys (d, T) of the run that just ended
OutsideRun(r) == r.Ticker # call'.ticker \/ r.Date \notin call'.dates

\* C15: a run for ticker T changes only rows keyed (d, T) with d the date
\* of a signal it kept, and returns their number as signal_count; every
\* other row, of another ticker or of T at another date, is unchanged, and
\* no key present before the run is absent after it
SignalsFrame ==
    [][call'.fn = "process_ticker_signals" =>
        /\ \A r \in DOMAIN all_signals :
             OutsideRun(r) => /\ r \in DOMAIN all_signals'
                              /\ all_signals'[r] = all_signals[r]
        /\ \A r \in DOMAIN all_signals' :
             OutsideRun(r) => r \in DOMAIN all_signals
        /\ \A r \in DOMAIN all_signals :
             \E q \in DOMAIN all_signals' : q.Date = r.Date /\ q.Ticker = r.Ticker
        /\ call'.ret.kind = "dict" =>
             /\ call'.ret.signal_count = Cardinality(call'.dates)
             /\ \A d \in call'.dates :
                  \E q \in DOMAIN all_signals' : q.Date = d /\ q.Ticker = call'.ticker]_vars

\* a run for BBB kept one signal, at date 2, and stored it; the table holds
\* a row of AAA at date 2 and a row of BBB at date 1 from earlier runs
SignalsFrameWitness ==
    /\ call.fn = "process_ticker_signals"
    /\ call.ticker = "BBB" /\ call.dates = {2}
    /\ call.ret.kind = "dict" /\ call.ret.signal_count = 1
    /\ \E r \in DOMAIN all_signals : r.Ticker = "AAA" /\ r.Date = 2 /\ r.Signal = "Sell"
    /\ \E r \in DOMAIN all_signals : r.Ticker = "BBB" /\ r.Date = 1
    /\ \E r \in DOMAIN all_signals : r.Ticker = "BBB" /\ r.Date = 2 /\ r.Signal = "Buy"

====
